---- MODULE Spec2Model ----
(***************************************************************************)
(* Model of src/model.py (TENENCE): the recurrence of encode_sequence, the *)
(* loss loop of compute_losses, the static compute_local_infoNCE_loss and  *)
(* the shape arithmetic of TimeEncoder.forward.                            *)
(*                                                                         *)
(* Tensors of learned values are modelled as terms: an embedding is the    *)
(* record of everything it was computed from, so two embeddings are equal  *)
(* exactly when they were computed by the same operations from the same    *)
(* inputs.  Index structure (which step, which node, which snapshot's      *)
(* edges, how many scores) is modelled concretely.                         *)
(*                                                                         *)
(* The source calls self.dec, self.pred, self.k_enc, self.cpc_local and    *)
(* self.cpc_global, which __init__ registers as decoder, link_predictor,   *)
(* timestep_enc, predictive_encoder_local and predictive_encoder_global.   *)
(* The model resolves each call to the component of matching shape.        *)
(***************************************************************************)
EXTENDS Integers, Sequences, FiniteSets, TLC

\* ---------------------------------------------------------------- bounds
\* nodes of a graph, snapshots of a sequence, output_dim
MaxNodes == 2
MaxT == 3
MaxDim == 2
\* edges over a whole sequence; over both sequences of a two-call comparison
MaxEdges == 2
MaxEdgesCausal == 1

\* the dimensions tried: the degenerate 1 and the largest
Dims == {1, MaxDim}

VARIABLES
    pc,                 \* position of the call
    snapshot_sequence,  \* the argument of forward
    normalize,          \* the argument of forward
    training,           \* self.training (dropout and batch statistics on)
    output_dim,         \* self.output_dim
    k,                  \* loop index of the running loop
    state, last_seen, last_seen_enc_k, states, Z_enc, Z_dec, Z_pred,
    ks_enc, reconstruction_loss, infoNCE, prediction_loss,
    scores_same_k, pos_scores_k_local, pos_scores_k_global,
    neg_scores_same_k_different_node, neg_scores_not_same_k_all_nodes,
    neg_scores_k_global,
    loss,
    Z_size, pos_scores, neg_scores, scores_all,
    other               \* a second call of encode_sequence (two-run comparison)

encVars == <<state, last_seen, last_seen_enc_k, states, Z_enc, Z_dec, Z_pred>>
nceVars == <<scores_same_k, pos_scores_k_local, pos_scores_k_global,
             neg_scores_same_k_different_node, neg_scores_not_same_k_all_nodes,
             neg_scores_k_global>>
lossVars == <<ks_enc, reconstruction_loss, infoNCE, prediction_loss, loss>>
localVars == <<Z_size, pos_scores, neg_scores, scores_all>>
argVars == <<snapshot_sequence, normalize, training, output_dim>>
vars == <<pc, k, argVars, encVars, nceVars, lossVars, localVars, other>>

\* ------------------------------------------------------- generic helpers
Range(s) == {s[i] : i \in DOMAIN s}

Max(S) == CHOOSE x \in S : \A y \in S : y <= x

\* torch.cat(list, dim=0): the concatenation of a sequence of sequences
RECURSIVE Concat(_)
Concat(ss) == IF ss = <<>> THEN <<>> ELSE Head(ss) \o Concat(Tail(ss))

\* ------------------------------------------------------------- snapshots
\* A Data record: x is (N, F) (its content abstracted to an id), edge_index a
\* set of directed (source, destination) pairs over 0..N-1 without self-loops.
Nodes(n) == 0..(n - 1)

EdgeSets(n, maxE) ==
    {E \in SUBSET {e \in Nodes(n) \X Nodes(n) : e[1] # e[2]} : Cardinality(E) <= maxE}

\* the node features are the same (N, F) matrix "x" in every snapshot
Snapshots(n, maxE) ==
    [num_nodes : {n}, x : {"x"}, edge_index : EdgeSets(n, maxE)]

\* the sequences of len snapshots over n nodes with at most maxE edges in all
RECURSIVE SnapshotSeqs(_, _, _)
SnapshotSeqs(n, len, maxE) ==
    IF len = 0 THEN {<<>>}
    ELSE UNION {{<<g>> \o rest :
                    rest \in SnapshotSeqs(n, len - 1, maxE - Cardinality(g.edge_index))} :
                g \in Snapshots(n, maxE)}

RECURSIVE TotalEdges(_)
TotalEdges(seq) ==
    IF seq = <<>> THEN 0 ELSE Cardinality(Head(seq).edge_index) + TotalEdges(Tail(seq))

\* ----------------------------------------------------------- TimeEncoder
\* shapes are sequences of dimension sizes
RECURSIVE Numel(_)
Numel(shape) == IF shape = <<>> THEN 1 ELSE Head(shape) * Numel(Tail(shape))

\* t.reshape((-1, 1))
ReshapeColumn(shape) == <<Numel(shape), 1>>

\* nn.Linear(1, dim) applied to (..., 1)
LinearShape(shape, dim) == SubSeq(shape, 1, Len(shape) - 1) \o <<dim>>

\* .squeeze(): every dimension of size 1 is dropped
Squeeze(shape) == SelectSeq(shape, LAMBDA d : d # 1)

\* TimeEncoder.forward: cos(w(t.reshape((-1, 1)))).squeeze()
TimeEncoderForward(t, tshape, dim) ==
    [t |-> t, shape |-> Squeeze(LinearShape(ReshapeColumn(tshape), dim))]

\* torch.cat([a, b], dim=1) is defined only for tensors with the same number
\* of dimensions (>= 2) that agree outside dim 1
CatDim1Ok(a, b) ==
    /\ Len(a) = Len(b)
    /\ Len(a) >= 2
    /\ \A i \in 1..Len(a) : i # 2 => a[i] = b[i]

\* ------------------------------------------------------- encode_sequence
\* F.dropout(z, p=0.1, training=self.training): in training mode each call
\* draws a mask of the size of z from the generator, so the masks of step kk
\* are draws 3kk+1..3kk+3 of the call whatever the edges are; none otherwise
DropoutDraws(kk, train) == IF train THEN <<3 * kk + 1, 3 * kk + 2, 3 * kk + 3>> ELSE <<>>

\* nn.BatchNorm1d in training mode refuses a batch of a single row
BatchNormOk(n, train) == ~(train /\ n = 1)

\* self.gae.encode(x_k, edge_index_k, normalize): MPNN.forward on snapshot k
GaeEncode(graph, norm, kk, train) ==
    [x |-> graph.x, edge_index |-> graph.edge_index, normalize |-> norm,
     dropout |-> DropoutDraws(kk, train)]

\* edge_index_k[1, :].unique() (the destinations) and
\* edge_index_k[0, :].unique() (the sources, line 164)
Dst(edge_index) == {e[2] : e \in edge_index}
Src(edge_index) == {e[1] : e \in edge_index}

\* last_seen.index_fill(0, src, k + 1)
IndexFill(ls, src, val) == [v \in DOMAIN ls |-> IF v \in src THEN val ELSE ls[v]]

\* GGRU.forward(z, edge_index, s): the new state is a function of the input,
\* the edges and the previous state s; as a term, s extended by this step
GGRUForward(z, edge_index, s) == Append(s, [z |-> z, edge_index |-> edge_index])

\* self.dec(state) / self.pred(state): the two D -> D linear layers
Dec(s) == [lin |-> "decoder", s |-> s]
Pred(s) == [lin |-> "link_predictor", s |-> s]

\* snapshot_sequence[-1], and the snapshot the loop body of step kk reads
GraphAtLast(seq, kk) == seq[Len(seq)]
GraphAt(seq, kk) == seq[kk + 1]

\* One iteration of the loop of encode_sequence on frame fr (the locals).
\* Raises in the encoder (line 160) when batch normalization refuses the
\* batch, and at the torch.cat of line 169 when the shapes do not fit.
EncodeBody(seq, kk, norm, train, dim, fr) ==
    LET graph == GraphAt(seq, kk)
        n == seq[1].num_nodes
        z_enc_k == GaeEncode(graph, norm, kk, train)
        src == Src(graph.edge_index)
        ls == IndexFill(fr.last_seen, src, kk + 1)
        ls_enc == TimeEncoderForward(ls, <<n>>, dim)
        ok == CatDim1Ok(<<n, dim>>, ls_enc.shape)
        z_in == [z_enc |-> z_enc_k, t_enc |-> ls]
        s == GGRUForward(z_in, graph.edge_index, fr.state)
    IN  IF ~BatchNormOk(n, train)
        THEN [fr EXCEPT !.raised = TRUE]
        ELSE IF ok
        THEN [raised |-> FALSE, state |-> s, last_seen |-> ls, last_seen_enc_k |-> ls_enc,
              states |-> Append(fr.states, s),
              Z_enc |-> Append(fr.Z_enc, z_enc_k),
              Z_dec |-> Append(fr.Z_dec, Dec(s)),
              Z_pred |-> Append(fr.Z_pred, Pred(s))]
        ELSE [raised |-> TRUE, state |-> fr.state, last_seen |-> ls, last_seen_enc_k |-> ls_enc,
              states |-> fr.states,
              Z_enc |-> Append(fr.Z_enc, z_enc_k),
              Z_dec |-> fr.Z_dec, Z_pred |-> fr.Z_pred]

\* the locals of encode_sequence before the loop (lines 145-152)
EncodeFrame0(seq) ==
    [raised |-> FALSE, state |-> <<>>,
     last_seen |-> [v \in Nodes(seq[1].num_nodes) |-> 0],
     last_seen_enc_k |-> [t |-> [v \in Nodes(seq[1].num_nodes) |-> 0], shape |-> <<>>],
     states |-> <<>>, Z_enc |-> <<>>, Z_dec |-> <<>>, Z_pred |-> <<>>]

\* --------------------------------------------------------------- losses
\* torch.tensor(0.0)
ZeroLoss == [terms |-> <<>>, value |-> "zero"]

\* tensor.mean() over cnt elements: the mean of an empty tensor is nan
MeanOf(cnt) == IF cnt = 0 THEN "nan" ELSE "finite"

\* a + b on loss values: nan is absorbing, 0.0 is neutral
AddValue(a, b) ==
    IF a = "nan" \/ b = "nan" THEN "nan"
    ELSE IF a = "zero" THEN b
    ELSE IF b = "zero" THEN a
    ELSE "finite"

\* acc += term
AddTerm(acc, term) ==
    [terms |-> Append(acc.terms, term), value |-> AddValue(acc.value, term.value)]

RECURSIVE SumValues(_)
SumValues(terms) ==
    IF terms = <<>> THEN "zero"
    ELSE AddValue(SumValues(SubSeq(terms, 1, Len(terms) - 1)), terms[Len(terms)].value)

\* self.gae.recon_loss(z, pos_edge_index): -log(sigmoid(z_i . z_j)).mean() over
\* the positive edges plus the same over as many sampled negatives
ReconLoss(z, zfrom, seq, j) ==
    [z |-> z, z_from |-> zfrom, edges_from |-> j,
     pos_edge_index |-> seq[j + 1].edge_index,
     value |-> MeanOf(Cardinality(seq[j + 1].edge_index))]

\* "k < num_timesteps", and the guard "k < num_timesteps - 1" of line 213
HasNextOffByOne(kk, T) == kk < T
HasNext(kk, T) == kk < T - 1

\* step kk itself, and the step k + 1 whose edges the prediction term of
\* step kk is scored against (line 215)
NextStepSame(kk) == kk
NextStep(kk) == kk + 1

\* row-major flattening of a (A, B, C) tensor given by its entries f[a, b, c]
Flatten3(A, B, C, f(_, _, _)) ==
    [i \in 1..(A * B * C) |-> f((i - 1) \div (B * C), ((i - 1) \div C) % B, (i - 1) % C)]

Flatten2(A, B, f(_, _)) ==
    [i \in 1..(A * B) |-> f((i - 1) \div B, (i - 1) % B)]

\* the sorted sequence of the elements of a set of naturals
RECURSIVE SortedSeq(_)
SortedSeq(S) == IF S = {} THEN <<>> ELSE SortedSeq(S \ {Max(S)}) \o <<Max(S)>>

\* Z_enc[k + 1:]: the steps of the slice
FutureSteps(kk, T) == [i \in 1..(T - 1 - kk) |-> kk + i]

\* torch.einsum("TND, LMD -> TNM", z_cpc_local_future, z_local_future):
\* L and D are absent from the output, so both are summed over.  Entry
\* [t, n, m] is the forecast (fsteps[t], n) against node m of every step of
\* zsteps, added up.
EinsumTND_LMD(fsteps, zsteps, n) ==
    LET summed == Range(zsteps)
    IN  Flatten3(Len(fsteps), n, n,
                 LAMBDA a, b, c : [t |-> fsteps[a + 1], n |-> b, m |-> c, zsteps |-> summed])

\* torch.einsum("ND, TMD -> TNM", z_hat, Z): entry [t, n, m] is the forecast
\* (fstep, n) against node m of step zsteps[t]
EinsumND_TMD(fstep, zsteps, n) ==
    Flatten3(Len(zsteps), n, n,
             LAMBDA a, b, c : [t |-> fstep, n |-> b, m |-> c, zsteps |-> {zsteps[a + 1]}])

\* torch.diagonal(scores, dim1=1, dim2=2) of a (A, n, n) tensor, flattened
Diagonal3(scores) == SelectSeq(scores, LAMBDA sc : sc.n = sc.m)

\* scores[~torch.eye(n).unsqueeze(0).repeat(A, 1, 1)]
OffDiagonal3(scores) == SelectSeq(scores, LAMBDA sc : sc.n # sc.m)

\* a mask that selects nothing, and row idx of
\* ~torch.eye(num_timesteps, dtype=torch.bool)[k + 1:]: the steps (columns)
\* at which the row of target step kp is True
NotSameKMaskEmpty(kp, T) == {}
NotSameKMask(kp, T) == {j \in 0..(T - 1) : j # kp}

\* lines 246-250: for each future target, the forecast against Z_enc[mask row]
NegNotSameK(kk, T, n) ==
    LET future == FutureSteps(kk, T)
    IN  Concat([idx \in 1..Len(future) |->
                  EinsumND_TMD(future[idx], SortedSeq(NotSameKMask(future[idx], T)), n)])

\* torch.diagonal(z_cpc_global_future @ z_global_future.T)
PosGlobal(kk, T) ==
    LET future == FutureSteps(kk, T)
    IN  [i \in 1..Len(future) |-> [t |-> future[i], zsteps |-> {future[i]}]]

\* (z_cpc_global_future @ Z_enc.mean(1).T)[not_same_k_mask]
NegGlobal(kk, T) ==
    LET future == FutureSteps(kk, T)
    IN  SelectSeq(Flatten2(Len(future), T,
                           LAMBDA a, b : [t |-> future[a + 1], zsteps |-> {b}]),
                  LAMBDA sc : sc.zsteps \subseteq NotSameKMask(sc.t, T))

\* F.binary_cross_entropy_with_logits(..., pos_weight = len(neg) / len(pos))
InfoNCETerm(kk, npos, nneg) ==
    [k |-> kk, num_pos |-> npos, num_neg |-> nneg, value |-> MeanOf(npos + nneg)]

\* ------------------------------------------- compute_local_infoNCE_loss
\* list(range(num_timesteps)), and
\* list(set(range(num_timesteps)).difference({k})) of line 295
NegativeTimesAll(kk, T) == SortedSeq(0..(T - 1))
NegativeTimes(kk, T) == SortedSeq({j \in 0..(T - 1) : j # kk})

\* scores_all[k]
ScoresAt(scores, zstep) == SelectSeq(scores, LAMBDA sc : sc.zsteps = {zstep})

\* scores_all[negative_times, :, :]
ScoresAtAll(scores, zsteps) ==
    Concat([i \in 1..Len(zsteps) |-> ScoresAt(scores, zsteps[i])])

\* ------------------------------------------------------------ the calls
NoFrame == [pc |-> "none"]
NoScores == <<>>

EncInit(seq) ==
    LET fr == EncodeFrame0(seq)
    IN  /\ state = fr.state
        /\ last_seen = fr.last_seen
        /\ last_seen_enc_k = fr.last_seen_enc_k
        /\ states = fr.states
        /\ Z_enc = fr.Z_enc
        /\ Z_dec = fr.Z_dec
        /\ Z_pred = fr.Z_pred

LossInitial ==
    /\ ks_enc = [t |-> <<>>, shape |-> <<>>]
    /\ reconstruction_loss = ZeroLoss
    /\ infoNCE = ZeroLoss
    /\ prediction_loss = ZeroLoss
    /\ loss = "none"
    /\ scores_same_k = NoScores
    /\ pos_scores_k_local = NoScores
    /\ pos_scores_k_global = NoScores
    /\ neg_scores_same_k_different_node = NoScores
    /\ neg_scores_not_same_k_all_nodes = NoScores
    /\ neg_scores_k_global = NoScores

LocalInitial ==
    /\ pos_scores = <<>>
    /\ neg_scores = <<>>
    /\ scores_all = NoScores

\* forward(snapshot_sequence) is called with the default normalize = False on
\* a model of dimension output_dim; encode_sequence has run lines 145-152
InitForward ==
    /\ pc = "encode"
    /\ \E n \in 1..MaxNodes, T \in 1..MaxT :
          snapshot_sequence \in SnapshotSeqs(n, T, MaxEdges)
    /\ normalize = FALSE
    /\ training \in BOOLEAN
    /\ output_dim \in Dims
    /\ k = 0
    /\ EncInit(snapshot_sequence)
    /\ LossInitial
    /\ LocalInitial
    /\ Z_size = <<0, 0>>
    /\ other = NoFrame

\* compute_local_infoNCE_loss(Z_hat, Z) is called with Z of size (T, N, D)
InitLocal ==
    /\ pc = "local"
    /\ snapshot_sequence = <<>>
    /\ normalize = FALSE
    /\ training = FALSE
    /\ output_dim \in Dims
    /\ k = 0
    /\ state = <<>> /\ last_seen = <<>> /\ states = <<>>
    /\ last_seen_enc_k = [t |-> <<>>, shape |-> <<>>]
    /\ Z_enc = <<>> /\ Z_dec = <<>> /\ Z_pred = <<>>
    /\ LossInitial
    /\ LocalInitial
    /\ Z_size \in (1..MaxT) \X (1..MaxNodes)
    /\ other = NoFrame

Init == InitForward \/ InitLocal

NumTimesteps == Len(snapshot_sequence)
NumNodes == snapshot_sequence[1].num_nodes

Frame ==
    [raised |-> FALSE, state |-> state, last_seen |-> last_seen,
     last_seen_enc_k |-> last_seen_enc_k, states |-> states,
     Z_enc |-> Z_enc, Z_dec |-> Z_dec, Z_pred |-> Z_pred]

\* one iteration of "for k, graph in enumerate(snapshot_sequence)" (153-179)
EncodeStep ==
    /\ pc = "encode"
    /\ k < NumTimesteps
    /\ LET fr == EncodeBody(snapshot_sequence, k, normalize, training, output_dim, Frame)
       IN  /\ state' = fr.state
           /\ last_seen' = fr.last_seen
           /\ last_seen_enc_k' = fr.last_seen_enc_k
           /\ states' = fr.states
           /\ Z_enc' = fr.Z_enc
           /\ Z_dec' = fr.Z_dec
           /\ Z_pred' = fr.Z_pred
           /\ pc' = IF fr.raised THEN "raised_encode" ELSE "encode"
           /\ k' = IF fr.raised THEN k ELSE k + 1
    /\ UNCHANGED <<argVars, nceVars, lossVars, localVars, other>>

\* lines 180-184 and 196-203: the sequences are stacked and returned,
\* compute_losses is entered and ks_enc = self.k_enc(ks) is computed
EncodeReturn ==
    /\ pc = "encode"
    /\ k = NumTimesteps
    /\ pc' = "losses"
    /\ k' = 0
    /\ ks_enc' = TimeEncoderForward([i \in 1..NumTimesteps |-> i],
                                    <<1, NumTimesteps>>, output_dim)
    /\ UNCHANGED <<argVars, encVars, nceVars, localVars, other,
                   reconstruction_loss, infoNCE, prediction_loss, loss>>

\* one iteration of the loop of compute_losses (lines 205-268)
LossStep ==
    /\ pc = "losses"
    /\ k < NumTimesteps
    /\ LET T == NumTimesteps
           n == NumNodes
           recon_loss_k == ReconLoss(Z_dec[k + 1], [seq |-> "Z_dec", index |-> k],
                                     snapshot_sequence, k)
           future == FutureSteps(k, T)
           same_k == EinsumTND_LMD(future, future, n)
           pos_local == Diagonal3(same_k)
           pos_global == PosGlobal(k, T)
           neg_same == OffDiagonal3(same_k)
           neg_not_same == NegNotSameK(k, T, n)
           neg_global == NegGlobal(k, T)
           npos == Len(pos_local) + Len(pos_global)
           nneg == Len(neg_same) + Len(neg_not_same) + Len(neg_global)
       IN  /\ reconstruction_loss' = AddTerm(reconstruction_loss, recon_loss_k)
           /\ IF ~HasNext(k, T)
              THEN /\ pc' = "losses"
                   /\ k' = k + 1
                   /\ UNCHANGED <<prediction_loss, infoNCE, nceVars>>
              ELSE IF NextStep(k) >= T
              THEN \* snapshot_sequence[k + 1] raises IndexError
                   /\ pc' = "raised_losses"
                   /\ UNCHANGED <<k, prediction_loss, infoNCE, nceVars>>
              ELSE /\ prediction_loss' =
                        AddTerm(prediction_loss,
                                ReconLoss(Z_pred[k + 1], [seq |-> "Z_pred", index |-> k],
                                          snapshot_sequence, NextStep(k)))
                   /\ scores_same_k' = same_k
                   /\ pos_scores_k_local' = pos_local
                   /\ pos_scores_k_global' = pos_global
                   /\ neg_scores_same_k_different_node' = neg_same
                   /\ neg_scores_not_same_k_all_nodes' = neg_not_same
                   /\ neg_scores_k_global' = neg_global
                   /\ IF npos = 0
                      THEN \* len(neg_labels) / len(pos_labels) raises ZeroDivisionError
                           /\ pc' = "raised_losses"
                           /\ UNCHANGED <<k, infoNCE>>
                      ELSE /\ infoNCE' = AddTerm(infoNCE, InfoNCETerm(k, npos, nneg))
                           /\ pc' = "losses"
                           /\ k' = k + 1
    /\ UNCHANGED <<argVars, encVars, localVars, other, ks_enc, loss>>

\* line 269 and lines 137-138 of forward
LossReturn ==
    /\ pc = "losses"
    /\ k = NumTimesteps
    /\ pc' = "done"
    /\ loss' = AddValue(AddValue(reconstruction_loss.value, infoNCE.value),
                        prediction_loss.value)
    /\ UNCHANGED <<k, argVars, encVars, nceVars, localVars, other,
                   ks_enc, reconstruction_loss, infoNCE, prediction_loss>>

\* compute_local_infoNCE_loss, lines 279-284: scores_all and the positives
LocalScores ==
    /\ pc = "local"
    /\ k < Z_size[1]
    /\ LET all == EinsumND_TMD(k, SortedSeq(0..(Z_size[1] - 1)), Z_size[2])
       IN  /\ scores_all' = all
           /\ pos_scores' = pos_scores \o Diagonal3(ScoresAt(all, k))
    /\ pc' = "local_spatial"
    /\ UNCHANGED <<k, argVars, encVars, nceVars, lossVars, other, Z_size, neg_scores>>

\* lines 286-291: the spatial negatives
LocalSpatial ==
    /\ pc = "local_spatial"
    /\ neg_scores' = neg_scores \o OffDiagonal3(scores_all)
    /\ pc' = "local_temporal"
    /\ UNCHANGED <<k, argVars, encVars, nceVars, lossVars, other,
                   Z_size, pos_scores, scores_all>>

\* lines 293-299: the temporal negatives
LocalTemporal ==
    /\ pc = "local_temporal"
    /\ neg_scores' = neg_scores \o
          Diagonal3(ScoresAtAll(scores_all, NegativeTimes(k, Z_size[1])))
    /\ pc' = "local"
    /\ k' = k + 1
    /\ UNCHANGED <<argVars, encVars, nceVars, lossVars, other,
                   Z_size, pos_scores, scores_all>>

\* lines 300-311
LocalReturn ==
    /\ pc = "local"
    /\ k = Z_size[1]
    /\ pc' = "done_local"
    /\ infoNCE' = AddTerm(ZeroLoss, InfoNCETerm(k, Len(pos_scores), Len(neg_scores)))
    /\ UNCHANGED <<k, argVars, encVars, nceVars, localVars, other,
                   ks_enc, reconstruction_loss, prediction_loss, loss>>

Next ==
    \/ EncodeStep
    \/ EncodeReturn
    \/ LossStep
    \/ LossReturn
    \/ LocalScores
    \/ LocalSpatial
    \/ LocalTemporal
    \/ LocalReturn

Spec == Init /\ [][Next]_vars

\* ------------------------------------------------ two calls side by side
\* encode_sequence is called on two sequences over the same node set that
\* share their first snapshot, with the same model, mode and normalize
InitCausal ==
    /\ pc = "encode"
    /\ \E n \in 1..MaxNodes, TA \in 1..MaxT, TB \in 1..MaxT :
          /\ snapshot_sequence \in SnapshotSeqs(n, TA, MaxEdgesCausal)
          /\ \E rest \in SnapshotSeqs(n, TB - 1,
                                      MaxEdgesCausal - TotalEdges(snapshot_sequence)) :
                LET seqB == <<snapshot_sequence[1]>> \o rest
                IN  other = [snapshot_sequence |-> seqB, k |-> 0,
                             fr |-> EncodeFrame0(seqB)]
    /\ normalize \in BOOLEAN
    /\ training \in BOOLEAN
    /\ output_dim \in Dims
    /\ k = 0
    /\ EncInit(snapshot_sequence)
    /\ LossInitial
    /\ LocalInitial
    /\ Z_size = <<0, 0>>

\* each call that has a snapshot left runs one iteration of its loop
CausalStep ==
    /\ pc = "encode"
    /\ ~(k = NumTimesteps /\ other.k = Len(other.snapshot_sequence))
    /\ LET runA == k < NumTimesteps
           runB == other.k < Len(other.snapshot_sequence)
           frA == IF runA
                  THEN EncodeBody(snapshot_sequence, k, normalize, training, output_dim, Frame)
                  ELSE Frame
           frB == IF runB
                  THEN EncodeBody(other.snapshot_sequence, other.k, normalize,
                                  training, output_dim, other.fr)
                  ELSE other.fr
       IN  /\ state' = frA.state
           /\ last_seen' = frA.last_seen
           /\ last_seen_enc_k' = frA.last_seen_enc_k
           /\ states' = frA.states
           /\ Z_enc' = frA.Z_enc
           /\ Z_dec' = frA.Z_dec
           /\ Z_pred' = frA.Z_pred
           /\ k' = IF runA /\ ~frA.raised THEN k + 1 ELSE k
           /\ other' = [other EXCEPT !.fr = frB,
                                     !.k = IF runB /\ ~frB.raised THEN @ + 1 ELSE @]
           /\ pc' = IF frA.raised \/ frB.raised THEN "raised_encode" ELSE "encode"
    /\ UNCHANGED <<argVars, nceVars, lossVars, localVars>>

\* both calls return their stacked sequences (lines 180-184)
CausalReturn ==
    /\ pc = "encode"
    /\ k = NumTimesteps
    /\ other.k = Len(other.snapshot_sequence)
    /\ pc' = "encoded"
    /\ UNCHANGED <<k, argVars, encVars, nceVars, lossVars, localVars, other>>

NextCausal == CausalStep \/ CausalReturn

SpecCausal == InitCausal /\ [][NextCausal]_vars

\* ================================================================ claims
InForward == pc \in {"encode", "raised_encode", "losses", "raised_losses", "done"}
InLosses == pc \in {"losses", "raised_losses", "done"}

Min(a, b) == IF a <= b THEN a ELSE b

\* the two sequences agree on snapshots 0..j-1
AgreeUpTo(j) ==
    /\ j <= NumTimesteps
    /\ j <= Len(other.snapshot_sequence)
    /\ \A i \in 1..j : snapshot_sequence[i] = other.snapshot_sequence[i]

\* C1: the state of step k is the GGRU update of the state of step k-1 (the
\* zero state at k = 0), and for two sequences that agree on snapshots 0..k
\* the entries 0..k of states, Z_enc, Z_dec and Z_pred are identical,
\* whatever the later snapshots are.
C1_Causal ==
    /\ \A j \in 1..Len(states) :
          /\ Len(states[j]) = j
          /\ SubSeq(states[j], 1, j - 1) = (IF j = 1 THEN <<>> ELSE states[j - 1])
    /\ \A j \in 1..MaxT :
          AgreeUpTo(j) =>
             /\ j <= Min(Len(states), Len(other.fr.states))
                   => states[j] = other.fr.states[j]
             /\ j <= Min(Len(Z_enc), Len(other.fr.Z_enc))
                   => Z_enc[j] = other.fr.Z_enc[j]
             /\ j <= Min(Len(Z_dec), Len(other.fr.Z_dec))
                   => Z_dec[j] = other.fr.Z_dec[j]
             /\ j <= Min(Len(Z_pred), Len(other.fr.Z_pred))
                   => Z_pred[j] = other.fr.Z_pred[j]

\* both calls returned, the sequences share exactly their first two snapshots
\* and go on differently (in content or in length)
C1_Witness ==
    /\ pc = "encoded"
    /\ AgreeUpTo(2)
    /\ ~AgreeUpTo(3)
    /\ NumTimesteps = 3
    /\ states[2] = other.fr.states[2]
    /\ Len(other.fr.states) = 3 => states[3] # other.fr.states[3]

\* C2: at return, compute_losses has accumulated exactly T reconstruction
\* terms, term k pairing Z_dec[k] with the edges of snapshot k, and exactly
\* T-1 prediction terms, term k pairing Z_pred[k] with the edges of
\* snapshot k+1; the last step adds no prediction term.
C2_LossTermsPairing ==
    pc = "done" =>
       /\ Len(reconstruction_loss.terms) = NumTimesteps
       /\ \A i \in 1..Len(reconstruction_loss.terms) :
             LET term == reconstruction_loss.terms[i]
             IN  /\ term.z_from = [seq |-> "Z_dec", index |-> i - 1]
                 /\ term.z = Z_dec[i]
                 /\ term.edges_from = i - 1
                 /\ term.pos_edge_index = snapshot_sequence[i].edge_index
       /\ Len(prediction_loss.terms) = NumTimesteps - 1
       /\ \A i \in 1..Len(prediction_loss.terms) :
             LET term == prediction_loss.terms[i]
             IN  /\ term.z_from = [seq |-> "Z_pred", index |-> i - 1]
                 /\ term.z = Z_pred[i]
                 /\ term.edges_from = i
                 /\ term.pos_edge_index = snapshot_sequence[i + 1].edge_index

\* compute_losses returned on three snapshots with pairwise different edges
C2_Witness ==
    /\ pc = "done"
    /\ NumTimesteps = 3
    /\ \A i, j \in 1..3 :
          i # j => snapshot_sequence[i].edge_index # snapshot_sequence[j].edge_index
    /\ Len(prediction_loss.terms) = 2

NonEmptyTerms(terms) == SelectSeq(terms, LAMBDA term : term.pos_edge_index # {})

\* C4: a snapshot without edges is not an error, and every reconstruction or
\* prediction term whose target edge set is empty contributes exactly zero:
\* each loss sum equals the sum of the terms of the non-empty snapshots.
C4_EmptySnapshotZero ==
    InForward =>
       /\ pc # "raised_losses"
       /\ pc = "done" =>
             /\ reconstruction_loss.value = SumValues(NonEmptyTerms(reconstruction_loss.terms))
             /\ prediction_loss.value = SumValues(NonEmptyTerms(prediction_loss.terms))

\* the value last_seen[v] must have after `steps` processed snapshots
LastSeenExpected(v, steps) ==
    LET S == {j \in 0..(steps - 1) : \E e \in snapshot_sequence[j + 1].edge_index : e[1] = v}
    IN  IF S = {} THEN 0 ELSE Max(S) + 1

\* the number of snapshots whose last_seen update (line 165) has run: those
\* whose structural embedding was appended (line 161)
StepsSeen == Len(Z_enc)

\* C5: after step k, last_seen[v] is j+1 for the largest j <= k at which v is
\* a source endpoint, 0 if there is none; the recency fed to the GGRU at
\* successive steps never decreases.
C5_LastSeen ==
    InForward =>
       /\ \A v \in Nodes(NumNodes) : last_seen[v] = LastSeenExpected(v, StepsSeen)
       /\ \A j \in 1..Len(state) : \A v \in Nodes(NumNodes) :
             /\ state[j].z.t_enc[v] = LastSeenExpected(v, j)
             /\ j > 1 => state[j].z.t_enc[v] >= state[j - 1].z.t_enc[v]

\* all steps processed: one node is only ever a destination and stays at 0,
\* another was a source at step 1 (0-indexed) and not after it
C5_Witness ==
    /\ pc = "losses"
    /\ NumTimesteps = 3
    /\ \E v, w \in Nodes(NumNodes) :
          /\ last_seen[v] = 0
          /\ \E j \in 1..3 : \E e \in snapshot_sequence[j].edge_index : e[2] = v
          /\ last_seen[w] = 2
          /\ state[1].z.t_enc[w] = 0

Count(seq, P(_)) == Len(SelectSeq(seq, P))

\* the step of the last InfoNCE term accumulated
LastNceK == infoNCE.terms[Len(infoNCE.terms)].k

\* C6: in the contrastive term of step k, each future step k' > k has
\* exactly N local and 1 global positive score, the positive count is
\* (T-1-k)*(N+1) and never zero, and there are strictly more negatives than
\* positives whenever T > 2 and N > 1.
C6_ScoreCounts ==
    InLosses =>
       /\ pc # "raised_losses"
       /\ infoNCE.terms # <<>> =>
             LET kk == LastNceK
                 T == NumTimesteps
                 n == NumNodes
                 term == infoNCE.terms[Len(infoNCE.terms)]
             IN  /\ \A kp \in (kk + 1)..(T - 1) :
                       /\ Count(pos_scores_k_local, LAMBDA sc : sc.t = kp) = n
                       /\ Count(pos_scores_k_global, LAMBDA sc : sc.t = kp) = 1
                 /\ term.num_pos = Len(pos_scores_k_local) + Len(pos_scores_k_global)
                 /\ term.num_pos = (T - 1 - kk) * (n + 1)
                 /\ term.num_pos > 0
                 /\ term.num_neg = Len(neg_scores_same_k_different_node)
                                   + Len(neg_scores_not_same_k_all_nodes)
                                   + Len(neg_scores_k_global)
                 /\ (T > 2 /\ n > 1) => term.num_neg > term.num_pos

C6_Witness ==
    /\ pc = "losses"
    /\ NumTimesteps = 3
    /\ NumNodes = 2
    /\ Len(infoNCE.terms) = 2
    /\ infoNCE.terms[1].num_pos = 6
    /\ infoNCE.terms[2].num_pos = 3

\* C7: the local positive score of node v for target step k' is the forecast
\* for (v, k') against Z_enc[k'][v] alone, and the same-time-different-node
\* negatives use Z_enc[k'] only.
C7_SameStepOnly ==
    InLosses =>
       /\ \A i \in 1..Len(pos_scores_k_local) :
             /\ pos_scores_k_local[i].zsteps = {pos_scores_k_local[i].t}
             /\ pos_scores_k_local[i].n = pos_scores_k_local[i].m
       /\ \A i \in 1..Len(neg_scores_same_k_different_node) :
             neg_scores_same_k_different_node[i].zsteps
                = {neg_scores_same_k_different_node[i].t}

\* the Z_enc steps the different-time negatives of target step kp are scored on
NegStepsOf(kp) ==
    UNION {sc.zsteps : sc \in {x \in Range(neg_scores_not_same_k_all_nodes) : x.t = kp}}

\* C8: the different-time local negatives of the forecast for target step k'
\* use exactly the other future steps {k'' : k < k'' <= T-1, k'' # k'}.
C8_FutureNegativesOnly ==
    (InLosses /\ infoNCE.terms # <<>>) =>
       \A kp \in (LastNceK + 1)..(NumTimesteps - 1) :
          NegStepsOf(kp) = {j \in (LastNceK + 1)..(NumTimesteps - 1) : j # kp}

InLocal == pc \in {"local", "done_local"}

C10_TimeEncoderShape ==
    (InForward /\ last_seen_enc_k.shape # <<>>) =>
       last_seen_enc_k.shape = <<NumNodes, output_dim>>

====
